---- MODULE Spec2Model ----
(***************************************************************************)
(* A model of doc-harvest's GoogleDocsAnalyzer                             *)
(* (google-docs-backend/app/document_analyzer.py): the ID-mutation engine, *)
(* the content normalizer and fingerprint, the sequential probe runner     *)
(* and the uniqueness analyzer.                                            *)
(*                                                                         *)
(* A Python str is modelled as a sequence of one-character strings, so     *)
(* that indexing, slicing and concatenation are the sequence operations.   *)
(***************************************************************************)
EXTENDS Integers, Sequences, FiniteSets, TLC

VARIABLES
    pc,          \* position of the operation under study
    base_id,     \* generate_incremented_ids: the seed
    strategies,  \* generate_incremented_ids: increment_strategies (NoneValue = omitted)
    ids,         \* generate_incremented_ids: the returned list
    raised,      \* TRUE when the call ended by raising instead of returning
    results,     \* a batch of DocumentInfo: batch_test_documents' list, analyze_uniqueness' input
    report,      \* analyze_uniqueness: the returned dict (NoneValue before the call)
    bs4_installed, \* TRUE when "from bs4 import BeautifulSoup" succeeds in this installation
    content_a,   \* _calculate_content_hash: a raw content
    content_b,   \* _calculate_content_hash: a raw content that differs from content_a in noise only
    hash_a,      \* the fingerprint of content_a (NoneValue before the call)
    hash_b,      \* the fingerprint of content_b (NoneValue before the call)
    doc_ids,     \* batch_test_documents: the requested IDs
    delay,       \* batch_test_documents: the delay between probes, in tenths of a second
    doc_index,   \* batch_test_documents: the loop index i (0-based, as enumerate gives it)
    url_index,   \* test_document_access: the position in base_urls of the template being fetched
    doc_info,    \* test_document_access: the DocumentInfo being filled (NoneValue outside a probe)
    response,    \* test_document_access: what the last client.get gave (NoneValue before the first)
    seen_hashes, \* batch_test_documents: the fingerprints seen so far
    batch_unique_count, \* batch_test_documents: unique_count, the number of first-seen fingerprints
    log,         \* history: every completed client.get and asyncio.sleep, in order
    structure,   \* analyze_id_structure: the returned dict (NoneValue before the call)
    sub_results  \* _generate_pattern_based_ids: the lists its sub-heuristics returned, in call order

mutateVars == <<base_id, strategies, ids, raised>>
uniqVars == <<results, report>>
hashVars == <<content_a, content_b, hash_a, hash_b>>
probeVars == <<doc_ids, delay, doc_index, url_index, doc_info, response, seen_hashes, batch_unique_count, log>>
structVars == <<structure>>
patternVars == <<sub_results>>
vars == <<pc, bs4_installed, mutateVars, uniqVars, hashVars, probeVars, structVars,
         patternVars>>

\* An Optional value is a set of at most one element: None is the empty set.
NoneValue == {}
Some(v) == {v}
TheValue(o) == CHOOSE v \in o : TRUE

(***************************************************************************)
(* Characters and the str methods the code uses on them (ASCII).           *)
(***************************************************************************)
Digits == <<"0","1","2","3","4","5","6","7","8","9">>
Lower == <<"a","b","c","d","e","f","g","h","i","j","k","l","m","n","o","p","q","r","s","t","u","v","w","x","y","z">>
Upper == <<"A","B","C","D","E","F","G","H","I","J","K","L","M","N","O","P","Q","R","S","T","U","V","W","X","Y","Z">>

Range(s) == {s[i] : i \in 1..Len(s)}

isdigit(c) == c \in Range(Digits)
islower(c) == c \in Range(Lower)
isupper(c) == c \in Range(Upper)
isalpha(c) == islower(c) \/ isupper(c)
isalnum(c) == isalpha(c) \/ isdigit(c)

\* The position of c in a character table (c is in the table).
IndexOf(c, tbl) == CHOOSE i \in 1..Len(tbl) : tbl[i] = c

\* int(c) for a digit character, and str(d) for d in 0..9.
DigitValue(c) == IndexOf(c, Digits) - 1
DigitChar(d) == Digits[d + 1]

RECURSIVE Flatten(_)
\* The concatenation of a list of lists: what a loop of append/extend builds.
\* (Halving keeps the evaluation shallow.)
Flatten(ss) ==
    IF Len(ss) = 0 THEN <<>>
    ELSE IF Len(ss) = 1 THEN ss[1]
    ELSE Flatten(SubSeq(ss, 1, Len(ss) \div 2))
            \o Flatten(SubSeq(ss, Len(ss) \div 2 + 1, Len(ss)))

\* s[:n] for 0 <= n.
Take(s, n) == SubSeq(s, 1, IF n < Len(s) THEN n ELSE Len(s))

\* s[n:] for 0 <= n.
Drop(s, n) == SubSeq(s, n + 1, Len(s))

\* The elements of xs at the positions in K, in order.
AtPositions(xs, K) ==
    LET InK(pair) == pair[1] \in K
        Values(pairs) == [m \in 1..Len(pairs) |-> pairs[m][2]]
    IN Values(SelectSeq([k \in 1..Len(xs) |-> <<k, xs[k]>>], InK))

\* F(v) with v evaluated first and once: the order in which Python runs a
\* statement that sets a local variable and the statements that use it.
Then(v, F(_)) == CHOOSE r \in {F(x) : x \in {v}} : TRUE

known_ids == <<
    <<"1","1","q","l","8","0","L","U","V","C","p","u","k","-","t","y","W","0","o","Z","0","P","f","-","v","0","N","m","E","b","X","u","C","5","1","1","5","f","S","A","X","-","i","o">>,
    <<"1","c","t","v","f","d","H","R","o","R","x","d","H","8","7","W","7","G","l","f","K","q","Q","W","O","n","0","P","b","t","r","M","j","T","o","H","v","D","0","x","7","D","Q","c">>,
    <<"1","k","W","u","N","e","Z","z","D","g","0","1","f","6","n","W","D","m","F","v","p","U","d","T","6","4","6","H","Z","J","x","r","S","I","J","7","F","8","p","w","f","0","p","o">> >>

(***************************************************************************)
(* IdMutationEngine: the single-character strategies.                      *)
(***************************************************************************)
\* The letter i places after c with wrap-around: 'z' + 1 gives 'a'.
ShiftLetter_wraps(c, i, tbl) ==
    <<tbl[((IndexOf(c, tbl) + i - 1) % Len(tbl)) + 1]>>

\* The letter i places after c in its case table, as a list of one candidate
\* character, or no candidate when ord(c) + i is past the table's last letter.
ShiftLetter(c, i, tbl) ==
    IF IndexOf(c, tbl) + i <= Len(tbl) THEN <<tbl[IndexOf(c, tbl) + i]>> ELSE <<>>

\* The branch taken for one character and one offset i in _increment_last_char
\* and _increment_all_positions: the replacement characters appended (0 or 1).
IncrementedChar(c, i) ==
    IF isdigit(c) THEN <<DigitChar((DigitValue(c) + i) % 10)>>
    ELSE IF islower(c) THEN ShiftLetter(c, i, Lower)
    ELSE IF isupper(c) THEN ShiftLetter(c, i, Upper)
    ELSE <<>>

\* The branch taken for one offset in _increment_last_letter (no digit branch).
IncrementedLetter(c, i) ==
    IF islower(c) THEN ShiftLetter(c, i, Lower)
    ELSE IF isupper(c) THEN ShiftLetter(c, i, Upper)
    ELSE <<>>

\* doc_id with the character at 1-based position pos replaced by each of news.
Substitute(doc_id, pos, news) ==
    [k \in 1..Len(news) |-> Take(doc_id, pos - 1) \o <<news[k]>> \o Drop(doc_id, pos)]

_increment_last_char(doc_id, count) ==
    IF Len(doc_id) = 0 THEN <<>>
    ELSE Flatten([i \in 1..count |->
            Substitute(doc_id, Len(doc_id), IncrementedChar(doc_id[Len(doc_id)], i))])

\* The scan from the end for the last character of a class: its 1-based
\* position, or 0 when the scan finds none (last_digit_pos == -1 in the code).
LastPos(doc_id, IsClass(_)) ==
    IF \E p \in 1..Len(doc_id) : IsClass(doc_id[p])
    THEN CHOOSE p \in 1..Len(doc_id) :
            /\ IsClass(doc_id[p])
            /\ \A q \in (p + 1)..Len(doc_id) : ~IsClass(doc_id[q])
    ELSE 0

\* _increment_last_digit with the scan started from the front: the first digit
\* is incremented instead of the last.
_increment_last_digit_first(doc_id, count) ==
    LET digit_pos == IF \E p \in 1..Len(doc_id) : isdigit(doc_id[p])
                     THEN CHOOSE p \in 1..Len(doc_id) :
                            /\ isdigit(doc_id[p])
                            /\ \A q \in 1..(p - 1) : ~isdigit(doc_id[q])
                     ELSE 0
    IN IF digit_pos = 0 THEN <<>>
       ELSE Flatten([i \in 1..count |->
                Substitute(doc_id, digit_pos,
                           <<DigitChar((DigitValue(doc_id[digit_pos]) + i) % 10)>>)])

\* _increment_last_digit without the "% 10": an offset that passes 9 is
\* dropped, as for the letters.
_increment_last_digit_no_wrap(doc_id, count) ==
    LET last_digit_pos == LastPos(doc_id, isdigit) IN
    IF last_digit_pos = 0 THEN <<>>
    ELSE LET last_digit == DigitValue(doc_id[last_digit_pos]) IN
         Flatten([i \in 1..count |->
            IF last_digit + i <= 9
            THEN Substitute(doc_id, last_digit_pos, <<DigitChar(last_digit + i)>>)
            ELSE <<>>])

_increment_last_digit(doc_id, count) ==
    LET last_digit_pos == LastPos(doc_id, isdigit) IN
    IF last_digit_pos = 0 THEN <<>>
    ELSE LET last_digit == DigitValue(doc_id[last_digit_pos]) IN
         Flatten([i \in 1..count |->
            Substitute(doc_id, last_digit_pos, <<DigitChar((last_digit + i) % 10)>>)])

_increment_last_letter(doc_id, count) ==
    LET last_letter_pos == LastPos(doc_id, isalpha) IN
    IF last_letter_pos = 0 THEN <<>>
    ELSE Flatten([i \in 1..count |->
            Substitute(doc_id, last_letter_pos,
                       IncrementedLetter(doc_id[last_letter_pos], i))])

_increment_all_positions(doc_id, max_per_position) ==
    Flatten([pos \in 1..Len(doc_id) |->
        Flatten([i \in 1..max_per_position |->
            Substitute(doc_id, pos, IncrementedChar(doc_id[pos], i))])])

(***************************************************************************)
(* IdMutationEngine: the pattern_based sub-heuristics.                     *)
(***************************************************************************)
\* The canonical identifier length the sub-heuristics filter on.
CanonicalLength == 44

\* s.replace(c, '') for a single character c.
RemoveChar(s, c) == LET Other(x) == x # c IN SelectSeq(s, Other)

\* list.insert(pos, c) with a 0-based pos <= len.
Insert(chars, pos, c) == Take(chars, pos) \o <<c>> \o Drop(chars, pos)

RECURSIVE InsertAll(_, _, _)
\* The insert loop of _test_hyphen_variations over positions already sorted in
\* reverse: a position not below the current length is skipped.
InsertAll(chars, positions, c) ==
    IF Len(positions) = 0 THEN chars
    ELSE InsertAll(IF Head(positions) < Len(chars)
                   THEN Insert(chars, Head(positions), c) ELSE chars,
                   Tail(positions), c)

\* known_hyphen_positions[0], sorted in reverse, and its maximum.
HyphenPositionsReversed == <<41, 23, 13>>
MaxHyphenPosition == 41

_test_hyphen_variations(id, count) ==
    LET stripped == RemoveChar(id, "-")
        placed   == InsertAll(stripped, HyphenPositionsReversed, "-")
        first    == IF Len(stripped) >= MaxHyphenPosition /\ Len(placed) = CanonicalLength
                    THEN <<placed>> ELSE <<>>
        second   == IF Len(stripped) = CanonicalLength THEN <<stripped>> ELSE <<>>
    IN Take(first \o second, count)

\* The end of the maximal run of characters of class that starts at position i.
RunEnd(s, i, class) ==
    CHOOSE e \in i..Len(s) :
        /\ \A k \in i..e : s[k] \in class
        /\ e = Len(s) \/ s[e + 1] \notin class

\* The first position at or after i that holds a character of class, or 0.
NextOfClass(s, i, class) ==
    IF \E j \in i..Len(s) : s[j] \in class
    THEN CHOOSE j \in i..Len(s) : s[j] \in class /\ \A k \in i..(j - 1) : s[k] \notin class
    ELSE 0

RECURSIVE RunsFrom(_, _, _)
\* re.findall of a one-class pattern such as \d+: the maximal runs, left to right.
RunsFrom(s, i, class) ==
    LET b == NextOfClass(s, i, class) IN
    IF b = 0 THEN <<>>
    ELSE <<SubSeq(s, b, RunEnd(s, b, class))>> \o RunsFrom(s, RunEnd(s, b, class) + 1, class)

\* re.findall(r'\d+', s)
DigitRuns(s) == RunsFrom(s, 1, Range(Digits))

RECURSIVE ParseInt(_)
\* int(seq) for a non-empty string of digits.
ParseInt(seq) ==
    IF Len(seq) = 0 THEN 0
    ELSE 10 * ParseInt(SubSeq(seq, 1, Len(seq) - 1)) + DigitValue(seq[Len(seq)])

RECURSIVE IntToStr(_)
\* str(n) for n >= 0.
IntToStr(n) ==
    IF n < 10 THEN <<DigitChar(n)>> ELSE IntToStr(n \div 10) \o <<DigitChar(n % 10)>>

\* No padding: str(new_num) as it is.
ZFill_unpadded(s, width) == s

\* s.zfill(width): left-padded with zeros up to width, never shortened.
ZFill(s, width) ==
    IF Len(s) >= width THEN s ELSE [k \in 1..(width - Len(s)) |-> "0"] \o s

\* Whether old occurs in s starting at 1-based position i.
OccursAt(s, old, i) ==
    /\ i + Len(old) - 1 <= Len(s)
    /\ SubSeq(s, i, i + Len(old) - 1) = old

\* s.replace(old, new, 1) for a non-empty old: the first occurrence is replaced.
ReplaceFirst(s, old, new) ==
    IF \E i \in 1..Len(s) : OccursAt(s, old, i)
    THEN LET i == CHOOSE j \in 1..Len(s) :
                    /\ OccursAt(s, old, j)
                    /\ \A k \in 1..(j - 1) : ~OccursAt(s, old, k)
         IN Take(s, i - 1) \o new \o Drop(s, i - 1 + Len(old))
    ELSE s

Max(a, b) == IF a >= b THEN a ELSE b

\* The deltas tried on each digit run.
Deltas == <<-2, -1, 1, 2>>

\* The candidates one digit run contributes, in delta order.
PerturbRun(id, seq) ==
    IF Len(seq) >= 2
    THEN LET num == ParseInt(seq) IN
         Flatten([d \in 1..Len(Deltas) |->
            LET new_num == Max(0, num + Deltas[d])
                new_seq == ZFill(IntToStr(new_num), Len(seq))
                new_id  == ReplaceFirst(id, seq, new_seq)
            IN IF new_id # id THEN <<new_id>> ELSE <<>>])
    ELSE <<>>

_test_digit_sequence_patterns(id, count) ==
    LET digit_sequences == DigitRuns(id) IN
    Take(Flatten([i \in 1..Len(digit_sequences) |-> PerturbRun(id, digit_sequences[i])]),
         count)

\* id with the characters at 1-based positions i and i + 1 swapped.
SwapAdjacent(id, i) ==
    [k \in 1..Len(id) |-> IF k = i THEN id[i + 1] ELSE IF k = i + 1 THEN id[i] ELSE id[k]]

\* _test_segment_boundaries without the final results[:count].
_test_segment_boundaries_uncapped(id, count) ==
    Flatten([i \in 1..(Len(id) - 1) |->
        IF \/ isalpha(id[i]) /\ isdigit(id[i + 1])
           \/ isdigit(id[i]) /\ isalpha(id[i + 1])
        THEN <<SwapAdjacent(id, i)>> ELSE <<>>])

_test_segment_boundaries(id, count) ==
    Take(Flatten([i \in 1..(Len(id) - 1) |->
            IF \/ isalpha(id[i]) /\ isdigit(id[i + 1])
               \/ isdigit(id[i]) /\ isalpha(id[i + 1])
            THEN <<SwapAdjacent(id, i)>> ELSE <<>>]),
         count)

\* range(0, n, step) for step > 0, as 1-based positions.
SamplePositions(n, step) == [k \in 1..((n + step - 1) \div step) |-> (k - 1) * step + 1]

\* range(0, len(id), len(id) // count) raises ValueError when the step is 0.
_test_length_variations_raises(id, count) == Len(id) \div count = 0

\* The returned list, when the call does not raise.
_test_length_variations(id, count) ==
    LET positions == SamplePositions(Len(id), Len(id) \div count)
        deletions == Flatten([k \in 1..Len(positions) |->
            LET i == positions[k] IN
            IF id[i] \notin {"-", "_"} /\ Len(id) - 1 = CanonicalLength - 1
            THEN <<Take(id, i - 1) \o Drop(id, i)>> ELSE <<>>])
        duplications == Flatten([k \in 1..Len(positions) |->
            LET i == positions[k] IN
            IF isalnum(id[i]) /\ Len(id) + 1 = CanonicalLength + 1
            THEN <<Take(id, i - 1) \o <<id[i]>> \o Drop(id, i - 1)>> ELSE <<>>])
    IN Take(deletions \o duplications, count)

\* The default target count of _generate_pattern_based_ids.
PatternCount == 20

_generate_pattern_based_ids_raises(id, count) ==
    _test_length_variations_raises(id, count \div 4)

_generate_pattern_based_ids(id, count) ==
    _test_hyphen_variations(id, count \div 4)
        \o _test_digit_sequence_patterns(id, count \div 4)
        \o _test_segment_boundaries(id, count \div 4)
        \o _test_length_variations(id, count \div 4)

(***************************************************************************)
(* IdMutationEngine: generate_incremented_ids.                             *)
(***************************************************************************)
\* The default count arguments of the strategies.
LastCharCount == 5
LastDigitCount == 10
LastLetterCount == 5
MaxPerPosition == 2

\* The list used when increment_strategies is omitted.
DefaultStrategies ==
    <<"last_char", "last_digit", "last_letter", "all_positions", "pattern_based">>

\* What one pass of the strategy loop extends incremented_ids by; a name that
\* matches no branch of the if/elif chain extends it by nothing.
StrategyOutput(id, strategy) ==
    CASE strategy = "last_char"     -> _increment_last_char(id, LastCharCount)
      [] strategy = "last_digit"    -> _increment_last_digit(id, LastDigitCount)
      [] strategy = "last_letter"   -> _increment_last_letter(id, LastLetterCount)
      [] strategy = "all_positions" -> _increment_all_positions(id, MaxPerPosition)
      [] strategy = "pattern_based" -> _generate_pattern_based_ids(id, PatternCount)
      [] OTHER                      -> <<>>

\* list(incremented_ids): the list as extended, duplicates kept.
ListOfSet_keeps_duplicates(xs) == xs

\* list(set(xs)): each element of xs once. Python's order is arbitrary; the
\* model keeps the order of first occurrence.
ListOfSet(xs) ==
    AtPositions(xs, {k \in 1..Len(xs) : \A j \in 1..(k - 1) : xs[j] # xs[k]})

\* The strategies the loop runs over.
EffectiveStrategies(increment_strategies) ==
    IF increment_strategies = NoneValue THEN DefaultStrategies
    ELSE TheValue(increment_strategies)

\* The call raises when a pass of the loop raises: nothing catches it.
generate_incremented_ids_raises(id, increment_strategies) ==
    LET strats == EffectiveStrategies(increment_strategies) IN
    \E k \in 1..Len(strats) :
        strats[k] = "pattern_based" /\ _generate_pattern_based_ids_raises(id, PatternCount)

\* The returned list, when the call does not raise.
generate_incremented_ids(id, increment_strategies) ==
    LET strats == EffectiveStrategies(increment_strategies)
        incremented_ids == Flatten([k \in 1..Len(strats) |-> StrategyOutput(id, strats[k])])
    IN ListOfSet(incremented_ids)

(***************************************************************************)
(* IdStructureAnalyzer: analyze_id_structure.                              *)
(***************************************************************************)
\* {char: doc_id.count(char) for char in set(doc_id)}
CharacterCounts(doc_id) ==
    [char \in Range(doc_id) |-> Cardinality({k \in 1..Len(doc_id) : doc_id[k] = char})]

\* all(c.isalnum() for c in s): true of the empty string.
StrIsAlnum_vacuous(s) == \A k \in 1..Len(s) : isalnum(s[k])

\* str.isalnum(): the string is not empty and all its characters are
\* alphanumeric.
StrIsAlnum(s) == Len(s) > 0 /\ \A k \in 1..Len(s) : isalnum(s[k])

\* re.findall(r'[a-zA-Z]+', s)
LetterRuns(s) == RunsFrom(s, 1, Range(Lower) \cup Range(Upper))

\* re.findall(r'[-_]', s)
SpecialChars(s) == SelectSeq(s, LAMBDA c : c \in {"-", "_"})

\* The loop has no effect (its only statement is "continue"), so the function
\* returns True for every string of two or more characters.
_check_alternating_pattern(doc_id) ==
    IF Len(doc_id) < 2 THEN FALSE ELSE TRUE

_analyze_patterns(doc_id) ==
    [consecutive_digits  |-> DigitRuns(doc_id),
     consecutive_letters |-> LetterRuns(doc_id),
     special_chars       |-> SpecialChars(doc_id),
     alternating_pattern |-> _check_alternating_pattern(doc_id)]

\* doc_id[0].isdigit() if doc_id else False
StartsWithDigit(doc_id) ==
    IF Len(doc_id) > 0 THEN isdigit(doc_id[1]) ELSE FALSE

analyze_id_structure(doc_id) ==
    [length            |-> Len(doc_id),
     character_counts  |-> CharacterCounts(doc_id),
     has_hyphens       |-> \E k \in 1..Len(doc_id) : doc_id[k] = "-",
     has_underscores   |-> \E k \in 1..Len(doc_id) : doc_id[k] = "_",
     alphanumeric_only |-> StrIsAlnum(RemoveChar(RemoveChar(doc_id, "-"), "_")),
     starts_with_digit |-> StartsWithDigit(doc_id),
     pattern_analysis  |-> _analyze_patterns(doc_id)]

(***************************************************************************)
(* ContentNormalizer: the regular expressions of the code.                 *)
(*                                                                         *)
(* A pattern is a list of atoms and a flag. An atom matches between lo and *)
(* hi characters (hi = Unbounded: any number) that are in cls, or that are *)
(* not in cls when neg. The patterns of the code are such that, from a     *)
(* given start, Python's match is the shortest one when the pattern's      *)
(* variable part is lazy (.*?) and the longest one otherwise.              *)
(***************************************************************************)
Unbounded == -1

Atom(cls, neg, lo, hi) == [cls |-> cls, neg |-> neg, lo |-> lo, hi |-> hi]

\* A literal string, one atom per character.
Lit(str) == [k \in 1..Len(str) |-> Atom({str[k]}, FALSE, 1, 1)]

\* The other case of a letter, or the character itself.
SwapCase(c) ==
    IF islower(c) THEN Upper[IndexOf(c, Lower)]
    ELSE IF isupper(c) THEN Lower[IndexOf(c, Upper)]
    ELSE c

\* A literal string under re.IGNORECASE.
LitI(str) == [k \in 1..Len(str) |-> Atom({str[k], SwapCase(str[k])}, FALSE, 1, 1)]

Whitespace == {" ", "\n", "\t"}
DigitSet == Range(Digits)

\* \s+  \s*  \d  \d+  \d{1,2}  \d{2}
OneOrMore(cls) == <<Atom(cls, FALSE, 1, Unbounded)>>
ZeroOrMore(cls) == <<Atom(cls, FALSE, 0, Unbounded)>>
Exactly(cls, n) == <<Atom(cls, FALSE, n, n)>>
Between(cls, lo, hi) == <<Atom(cls, FALSE, lo, hi)>>
\* [^...]* and [^...]+
ZeroOrMoreNot(cls) == <<Atom(cls, TRUE, 0, Unbounded)>>
OneOrMoreNot(cls) == <<Atom(cls, TRUE, 1, Unbounded)>>
\* .* (or .*?) without re.DOTALL: any characters but newlines; with it: any.
AnyRun == ZeroOrMoreNot({"\n"})
AnyRunDotAll == ZeroOrMoreNot({})

Pattern(atoms, lazy) == [atoms |-> atoms, lazy |-> lazy]

AtomMatches(a, c) == (c \in a.cls) # a.neg

\* The number of consecutive characters from position i that the atom accepts.
RunLen(a, s, i) ==
    CHOOSE n \in 0..(Len(s) - i + 1) :
        /\ \A k \in i..(i + n - 1) : AtomMatches(a, s[k])
        /\ i + n > Len(s) \/ ~AtomMatches(a, s[i + n])

Min(a, b) == IF a <= b THEN a ELSE b

\* The last atom of the stretch of atoms from k on that each take exactly one
\* character (k - 1 when atom k is not one of them).
SingleStretchEnd(atoms, k) ==
    LET Single(m) == atoms[m].lo = 1 /\ atoms[m].hi = 1
    IN CHOOSE e \in (k - 1)..Len(atoms) :
          /\ \A m \in k..e : Single(m)
          /\ e = Len(atoms) \/ ~Single(e + 1)

RECURSIVE Ends(_, _, _, _)
\* The positions just after a match of atoms k.. that starts at position i.
\* A stretch of one-character atoms is matched in one step.
Ends(atoms, k, s, i) ==
    IF k > Len(atoms) THEN {i}
    ELSE IF atoms[k].lo > 0 /\ (i > Len(s) \/ ~AtomMatches(atoms[k], s[i])) THEN {}
    ELSE LET e == SingleStretchEnd(atoms, k) IN
         IF e >= k
         THEN IF /\ i + (e - k) <= Len(s)
                 /\ \A m \in k..e : AtomMatches(atoms[m], s[i + (m - k)])
              THEN Ends(atoms, e + 1, s, i + (e - k) + 1)
              ELSE {}
         ELSE LET a    == atoms[k]
                  run  == RunLen(a, s, i)
                  most == IF a.hi = Unbounded THEN run ELSE Min(a.hi, run)
              IN UNION {Ends(atoms, k + 1, s, i + n) : n \in a.lo..most}

SetMin(S) == CHOOSE x \in S : \A y \in S : x <= y
SetMax(S) == CHOOSE x \in S : \A y \in S : x >= y

\* The end of the match Python takes from position i (there is one).
MatchEnd(pat, s, i) ==
    IF pat.lazy THEN SetMin(Ends(pat.atoms, 1, s, i)) ELSE SetMax(Ends(pat.atoms, 1, s, i))

\* Whether pat matches from position j, and the first such j at or after i
\* (0 when there is none).
MatchesAt(pat, s, j) == Ends(pat.atoms, 1, s, j) # {}
NextMatch(pat, s, i) ==
    IF \E j \in i..Len(s) : MatchesAt(pat, s, j)
    THEN CHOOSE j \in i..Len(s) :
            MatchesAt(pat, s, j) /\ \A k \in i..(j - 1) : ~MatchesAt(pat, s, k)
    ELSE 0

RECURSIVE SubFrom(_, _, _, _)
\* re.sub(pat, repl, s) from position i on: leftmost matches, not overlapping.
SubFrom(pat, repl, s, i) ==
    LET j == IF Len(s) = 0 THEN 0 ELSE NextMatch(pat, s, i) IN
    IF j = 0 THEN SubSeq(s, i, Len(s))
    ELSE SubSeq(s, i, j - 1) \o repl \o SubFrom(pat, repl, s, MatchEnd(pat, s, j))

\* re.sub(pat, repl, s)
Sub(pat, repl, s) == SubFrom(pat, repl, s, 1)

RECURSIVE SubEach(_, _)
\* re.sub(p, '', .) for each pattern of a list in turn.
SubEach(pats, s) ==
    IF Len(pats) = 0 \/ Len(s) = 0 THEN s
    ELSE IF Len(pats) = 1 THEN Sub(pats[1], <<>>, s)
    ELSE Then(SubEach(SubSeq(pats, 1, Len(pats) \div 2), s),
              LAMBDA rest : SubEach(SubSeq(pats, Len(pats) \div 2 + 1, Len(pats)), rest))

\* str.strip()
Strip(s) ==
    IF \A k \in 1..Len(s) : s[k] \in Whitespace THEN <<>>
    ELSE LET first == CHOOSE i \in 1..Len(s) :
                         s[i] \notin Whitespace /\ \A k \in 1..(i - 1) : s[k] \in Whitespace
             last  == CHOOSE j \in 1..Len(s) :
                         s[j] \notin Whitespace /\ \A k \in (j + 1)..Len(s) : s[k] \in Whitespace
         IN SubSeq(s, first, last)

\* re.sub(r'\s+', ' ', s): the first character of every whitespace run becomes
\* a space and the rest of the run goes.
CollapseWhitespace(s) ==
    LET kept == AtPositions(s, {k \in 1..Len(s) :
                                   s[k] \notin Whitespace \/ k = 1 \/ s[k - 1] \notin Whitespace})
    IN [m \in 1..Len(kept) |-> IF kept[m] \in Whitespace THEN " " ELSE kept[m]]

\* r'Loading\.\.\.'
LoadingPattern == Pattern(Lit(<<"L","o","a","d","i","n","g",".",".",".">>), FALSE)
\* r'Sign in.*?Google'
SignInPattern == Pattern(Lit(<<"S","i","g","n"," ","i","n">>) \o AnyRun \o Lit(<<"G","o","o","g","l","e">>), TRUE)
\* r'Last edit was.*?ago'
LastEditPattern == Pattern(Lit(<<"L","a","s","t"," ","e","d","i","t"," ","w","a","s">>) \o AnyRun \o Lit(<<"a","g","o">>), TRUE)
\* r'\d{1,2}:\d{2}:\d{2}\s*(AM|PM)'
TimestampPattern ==
    Pattern(Between(DigitSet, 1, 2) \o Lit(<<":">>) \o Exactly(DigitSet, 2) \o Lit(<<":">>)
            \o Exactly(DigitSet, 2) \o ZeroOrMore(Whitespace)
            \o <<Atom({"A", "P"}, FALSE, 1, 1)>> \o Lit(<<"M">>), FALSE)
\* r'Page \d+ of \d+'
PageNumberPattern ==
    Pattern(Lit(<<"P","a","g","e"," ">>) \o OneOrMore(DigitSet) \o Lit(<<" ","o","f"," ">>) \o OneOrMore(DigitSet), FALSE)

\* The noise patterns of _calculate_content_hash, in the order applied.
NoisePatterns ==
    <<LoadingPattern, SignInPattern, LastEditPattern, TimestampPattern, PageNumberPattern>>

\* r'var DOCS_timing.*?;'
VarDocsTimingPattern == Pattern(Lit(<<"v","a","r"," ","D","O","C","S","_","t","i","m","i","n","g">>) \o AnyRun \o Lit(<<";">>), TRUE)
\* r'nonce="[^"]*"'
NoncePattern == Pattern(Lit(<<"n","o","n","c","e","=","\"">>) \o ZeroOrMoreNot({"\""}) \o Lit(<<"\"">>), FALSE)
\* r'sid=[^&"]*'
SidPattern == Pattern(Lit(<<"s","i","d","=">>) \o ZeroOrMoreNot({"&", "\""}), FALSE)
\* r'DOCS_timing\[.*?\].*?;'
DocsTimingIndexPattern ==
    Pattern(Lit(<<"D","O","C","S","_","t","i","m","i","n","g","[">>) \o AnyRun \o Lit(<<"]">>) \o AnyRun \o Lit(<<";">>), TRUE)
\* r'new Date\(\)\.getTime\(\)'
NewDatePattern == Pattern(Lit(<<"n","e","w"," ","D","a","t","e","(",")",".","g","e","t","T","i","m","e","(",")">>), FALSE)
\* r'_reqid=[^&"]*'
ReqidPattern == Pattern(Lit(<<"_","r","e","q","i","d","=">>) \o ZeroOrMoreNot({"&", "\""}), FALSE)
\* r'authuser=[^&"]*'
AuthuserPattern == Pattern(Lit(<<"a","u","t","h","u","s","e","r","=">>) \o ZeroOrMoreNot({"&", "\""}), FALSE)

\* The noise patterns of _calculate_content_hash_fallback, in the order applied.
FallbackNoisePatterns ==
    <<VarDocsTimingPattern, NoncePattern, SidPattern, LoadingPattern, SignInPattern,
      LastEditPattern, TimestampPattern, PageNumberPattern, DocsTimingIndexPattern,
      NewDatePattern, ReqidPattern, AuthuserPattern>>

\* r'<name[^>]*>.*?</name>' with re.DOTALL | re.IGNORECASE
ElementPattern(name) ==
    Pattern(Lit(<<"<">>) \o LitI(name) \o ZeroOrMoreNot({">"}) \o Lit(<<">">>)
            \o AnyRunDotAll \o Lit(<<"<", "/">>) \o LitI(name) \o Lit(<<">">>), TRUE)

ScriptName == <<"s","c","r","i","p","t">>
StyleName == <<"s","t","y","l","e">>
NoscriptName == <<"n","o","s","c","r","i","p","t">>
TitleName == <<"t","i","t","l","e">>
BodyName == <<"b","o","d","y">>

\* r'<[^>]+>'
TagPattern == Pattern(Lit(<<"<">>) \o OneOrMoreNot({">"}) \o Lit(<<">">>), FALSE)

\* hashlib's hexdigest of a text: a non-empty string, equal for equal texts
\* and (no collisions) different for different texts.
Sha256(text) == <<"sha256:">> \o text

(***************************************************************************)
(* ContentNormalizer: _calculate_content_hash_fallback.                    *)
(***************************************************************************)
\* re.search(pat, s): whether pat matches somewhere in s, and where the
\* leftmost match starts.
Matches(pat, s) == NextMatch(pat, s, 1) # 0
SearchStart(pat, s) == NextMatch(pat, s, 1)

\* r'<title>(.*?)</title>' with re.IGNORECASE
TitlePattern ==
    Pattern(Lit(<<"<">>) \o LitI(TitleName) \o Lit(<<">">>) \o AnyRun
            \o Lit(<<"<", "/">>) \o LitI(TitleName) \o Lit(<<">">>), TRUE)

\* Whether the title pattern matches, and group(1) of its first match.
TitleFound(content) == Matches(TitlePattern, content)
TitleGroup(content) ==
    LET i == SearchStart(TitlePattern, content)
        e == MatchEnd(TitlePattern, content, i)
    IN SubSeq(content, i + Len(TitleName) + 2, e - Len(TitleName) - 4)

\* The text that is hashed, before hashlib.
FallbackNormalized(content) ==
    LET title == IF TitleFound(content) THEN Strip(TitleGroup(content)) ELSE <<>>
        NoElements(text) ==
            SubEach(<<ElementPattern(ScriptName), ElementPattern(StyleName),
                      ElementPattern(NoscriptName)>>, text)
    IN Then(NoElements(content), LAMBDA no_elements :
       Then(Sub(TagPattern, <<>>, no_elements), LAMBDA text_content :
       Then(title \o <<"\n">> \o text_content, LAMBDA full_text :
       Then(Strip(full_text), LAMBDA stripped :
       Then(CollapseWhitespace(stripped), LAMBDA normalized :
       Then(SubEach(FallbackNoisePatterns, normalized), LAMBDA denoised :
       Then(CollapseWhitespace(denoised), LAMBDA collapsed :
       Strip(collapsed))))))))

_calculate_content_hash_fallback(content) == Sha256(FallbackNormalized(content))

(***************************************************************************)
(* ContentNormalizer: _calculate_content_hash with BeautifulSoup.          *)
(*                                                                         *)
(* The parse tree is the list of the document's nodes in document order:   *)
(* a tag <name> or </name> (name without attributes) or a text string.     *)
(* The documents explored hold no div element, so the three div lookups    *)
(* of content_containers find nothing and are left out.                    *)
(***************************************************************************)
TagNode(name) == [tag |-> TRUE, text |-> name]
TextNode(text) == [tag |-> FALSE, text |-> text]

\* The position of the next c at or after i, or 0.
NextPos(s, i, c) ==
    IF \E j \in i..Len(s) : s[j] = c
    THEN CHOOSE j \in i..Len(s) : s[j] = c /\ \A k \in i..(j - 1) : s[k] # c
    ELSE 0

\* Whether a tag starts at i: '<', then a letter or '/', and a closing '>'.
TagStartsAt(s, i) ==
    /\ s[i] = "<"
    /\ i < Len(s)
    /\ isalpha(s[i + 1]) \/ s[i + 1] = "/"
    /\ NextPos(s, i, ">") # 0

\* The position of the next tag start at or after i, or Len(s) + 1.
NextTagStart(s, i) ==
    IF \E j \in i..Len(s) : TagStartsAt(s, j)
    THEN CHOOSE j \in i..Len(s) : TagStartsAt(s, j) /\ \A k \in i..(j - 1) : ~TagStartsAt(s, k)
    ELSE Len(s) + 1

RECURSIVE ParseNodes(_, _)
\* BeautifulSoup(content, 'html.parser'): the nodes from position i on.
ParseNodes(s, i) ==
    IF i > Len(s) THEN <<>>
    ELSE IF TagStartsAt(s, i)
    THEN <<TagNode(SubSeq(s, i + 1, NextPos(s, i, ">") - 1))>>
            \o ParseNodes(s, NextPos(s, i, ">") + 1)
    ELSE <<TextNode(SubSeq(s, i, NextTagStart(s, i + 1) - 1))>>
            \o ParseNodes(s, NextTagStart(s, i + 1))

\* The index of the first node that is the tag name at or after k, or 0.
FindTag(nodes, name, k) ==
    IF \E j \in k..Len(nodes) : nodes[j] = TagNode(name)
    THEN CHOOSE j \in k..Len(nodes) :
            nodes[j] = TagNode(name) /\ \A m \in k..(j - 1) : nodes[m] # TagNode(name)
    ELSE 0

\* The index of the node closing the element opened by node k: its end tag,
\* or the last node when the end tag is missing.
ElementEnd(nodes, name, k) ==
    IF FindTag(nodes, <<"/">> \o name, k) # 0
    THEN FindTag(nodes, <<"/">> \o name, k) ELSE Len(nodes)

\* soup.find(name): whether there is such an element, and the nodes inside
\* the first one.
HasElement(nodes, name) == FindTag(nodes, name, 1) # 0
ElementNodes(nodes, name) ==
    LET k == FindTag(nodes, name, 1)
        e == ElementEnd(nodes, name, k)
    IN SubSeq(nodes, k + 1, IF nodes[e] = TagNode(<<"/">> \o name) THEN e - 1 ELSE e)

RECURSIVE Decompose(_, _)
\* element.decompose() for every element called name.
Decompose(nodes, name) ==
    IF ~HasElement(nodes, name) THEN nodes
    ELSE LET k == FindTag(nodes, name, 1)
             e == ElementEnd(nodes, name, k)
         IN Decompose(SubSeq(nodes, 1, k - 1) \o SubSeq(nodes, e + 1, Len(nodes)), name)

RECURSIVE GetText(_)
\* get_text(): the strings of the nodes, concatenated.
GetText(nodes) ==
    IF Len(nodes) = 0 THEN <<>>
    ELSE (IF Head(nodes).tag THEN <<>> ELSE Head(nodes).text) \o GetText(Tail(nodes))

RECURSIVE StrippedStrings(_)
\* The strings of the nodes, each stripped, the empty ones left out.
StrippedStrings(nodes) ==
    IF Len(nodes) = 0 THEN <<>>
    ELSE (IF ~Head(nodes).tag /\ Len(Strip(Head(nodes).text)) > 0
          THEN <<Strip(Head(nodes).text)>> ELSE <<>>) \o StrippedStrings(Tail(nodes))

RECURSIVE Join(_, _)
\* sep.join(strs)
Join(strs, sep) ==
    IF Len(strs) = 0 THEN <<>>
    ELSE IF Len(strs) = 1 THEN Head(strs)
    ELSE Head(strs) \o sep \o Join(Tail(strs), sep)

\* get_text(separator=' ', strip=True)
GetTextSeparated(nodes) == Join(StrippedStrings(nodes), <<" ">>)

\* The title's text, stripped, or the empty string without a title element.
SoupTitle(soup) ==
    IF HasElement(soup, TitleName) THEN Strip(GetText(ElementNodes(soup, TitleName)))
    ELSE <<>>

\* The text of the body element, or of the whole document when there is no
\* body or its text is empty.
MainContent(soup) ==
    LET OrWhole(in_body) == IF Len(in_body) > 0 THEN in_body ELSE GetTextSeparated(soup)
    IN Then(IF HasElement(soup, BodyName)
            THEN GetTextSeparated(ElementNodes(soup, BodyName)) ELSE <<>>, OrWhole)

\* The text that is hashed, before hashlib.
SoupNormalized(content) ==
    Then(ParseNodes(content, 1), LAMBDA soup :
    Then(SoupTitle(soup), LAMBDA title :
    Then(Decompose(Decompose(Decompose(soup, ScriptName), StyleName), NoscriptName),
         LAMBDA cleaned :
    Then(MainContent(cleaned), LAMBDA main_content :
    Then(title \o <<"\n">> \o main_content, LAMBDA text_content :
    Then(Strip(text_content), LAMBDA stripped :
    Then(CollapseWhitespace(stripped), LAMBDA normalized :
    Then(SubEach(NoisePatterns, normalized), LAMBDA denoised :
    Then(CollapseWhitespace(denoised), LAMBDA collapsed :
    Strip(collapsed))))))))))

\* bs4 says whether the import of BeautifulSoup succeeds: when it does not,
\* ImportError sends the call to the fallback.
_calculate_content_hash(content, bs4) ==
    IF bs4 THEN Sha256(SoupNormalized(content))
    ELSE _calculate_content_hash_fallback(content)

(***************************************************************************)
(* DocumentInfo and the UniquenessAnalyzer.                                *)
(***************************************************************************)
\* The dataclass DocumentInfo; the Optional fields default to None.
DocumentInfo(id, url, accessible) ==
    [id |-> id, url |-> url, accessible |-> accessible, title |-> NoneValue,
     content_preview |-> NoneValue, content_hash |-> NoneValue, error |-> NoneValue]

\* Python truthiness of an Optional[str]: neither None nor the empty string.
Truthy(o) == o # NoneValue /\ Len(TheValue(o)) > 0

RECURSIVE AccessibleDocs(_)
\* [r for r in results if r.accessible]
AccessibleDocs(rs) ==
    IF Len(rs) = 0 THEN <<>>
    ELSE (IF Head(rs).accessible THEN <<Head(rs)>> ELSE <<>>) \o AccessibleDocs(Tail(rs))

RECURSIVE HashKeys_every_doc(_)
\* The hash loop without the dict: one entry per document with a fingerprint.
HashKeys_every_doc(docs) ==
    IF Len(docs) = 0 THEN <<>>
    ELSE (IF Truthy(Head(docs).content_hash)
          THEN <<TheValue(Head(docs).content_hash)>> ELSE <<>>)
         \o HashKeys_every_doc(Tail(docs))

RECURSIVE HashKeys(_)
\* list(hash_counts.keys()) after the loop over docs: each truthy content_hash
\* once, in the order of its first occurrence.
HashKeys(docs) ==
    IF Len(docs) = 0 THEN <<>>
    ELSE LET front == HashKeys(SubSeq(docs, 1, Len(docs) - 1))
             h     == docs[Len(docs)].content_hash
         IN IF Truthy(h) /\ TheValue(h) \notin Range(front)
            THEN front \o <<TheValue(h)>> ELSE front

\* A Python float that is a quotient of two counts, kept exact: num / den.
Quotient(num, den) == [num |-> num, den |-> den]

\* The float 0.0.
ZeroRate == Quotient(0, 1)

\* analyze_uniqueness without its early return for an empty accessible list.
analyze_uniqueness_no_guard(rs) ==
    LET accessible_docs == AccessibleDocs(rs)
        unique_count == Len(HashKeys(accessible_docs))
    IN [total_tested |-> Len(rs),
        accessible_count |-> Len(accessible_docs),
        unique_count |-> unique_count,
        duplicate_count |-> Len(accessible_docs) - unique_count,
        uniqueness_rate |-> Quotient(unique_count, Len(accessible_docs)),
        unique_hashes |-> HashKeys(accessible_docs)]

analyze_uniqueness(rs) ==
    LET accessible_docs == AccessibleDocs(rs) IN
    IF Len(accessible_docs) = 0
    THEN [total_tested |-> Len(rs), accessible_count |-> 0, unique_count |-> 0,
          duplicate_count |-> 0, uniqueness_rate |-> ZeroRate, unique_hashes |-> <<>>]
    ELSE LET unique_count == Len(HashKeys(accessible_docs)) IN
         [total_tested |-> Len(rs),
          accessible_count |-> Len(accessible_docs),
          unique_count |-> unique_count,
          duplicate_count |-> Len(accessible_docs) - unique_count,
          uniqueness_rate |-> IF Len(accessible_docs) > 0
                              THEN Quotient(unique_count, Len(accessible_docs))
                              ELSE ZeroRate,
          unique_hashes |-> HashKeys(accessible_docs)]

(***************************************************************************)
(* ProbeRunner: test_document_access and batch_test_documents.  A URL, an  *)
(* error message and an exception's text are kept as sequences of pieces   *)
(* of text rather than of single characters.                               *)
(***************************************************************************)
\* self.base_urls: each template as the text before and the text after "{}".
base_urls == <<
    <<"https://docs.google.com/document/d/", "/edit">>,
    <<"https://docs.google.com/document/d/", "/export?format=txt">>,
    <<"https://docs.google.com/document/d/", "/pub">> >>

\* url_template.format(doc_id)
Format(url_template, doc_id) == <<url_template[1]>> \o doc_id \o <<url_template[2]>>

\* What "await client.get(url, follow_redirects=True)" gives: a response with a
\* status code and a text, or an exception (raises = Some(its text)).
Response(status_code, text) == [raises |-> NoneValue, status_code |-> status_code, text |-> text]
Raises(e) == [raises |-> Some(e), status_code |-> 0, text |-> <<>>]

\* The error texts of the three status branches and of the except clause.
ForbiddenError == <<"Access forbidden - document may be private">>
NotFoundError == <<"Document not found">>
HttpError(status_code) == <<"HTTP ">> \o IntToStr(status_code)
RequestFailedError(e) == <<"Request failed: ", e>>

\* The length to which the preview is cut.
PreviewLength == 200

\* text_content[:200] + "..." if len(text_content) > 200 else text_content,
\* for the content without its tags and with its whitespace collapsed.
ContentPreview(content) ==
    LET Cut(text_content) ==
            IF Len(text_content) > PreviewLength
            THEN Take(text_content, PreviewLength) \o <<".", ".", ".">>
            ELSE text_content
    IN Then(Sub(TagPattern, <<>>, content), LAMBDA no_tags :
       Then(CollapseWhitespace(no_tags), LAMBDA collapsed :
       Then(Strip(collapsed), Cut)))

\* The success test with every 2xx status accepted.
IsSuccess_any_2xx(resp) == resp.status_code \in 200..299

\* response.status_code == 200
IsSuccess(resp) == resp.status_code = 200

\* The body of the try block for a resp: the success branch fills the
\* result, the other branches set its error.
\* The handling of a response with the fingerprint and the preview computed only
\* "if content:", that is for a body that is not empty.
OnResponse_if_content(info, resp, bs4) ==
    IF IsSuccess(resp)
    THEN IF Len(resp.text) = 0 THEN [info EXCEPT !.accessible = TRUE]
         ELSE [info EXCEPT
                 !.accessible = TRUE,
                 !.title = IF TitleFound(resp.text)
                           THEN Some(Strip(TitleGroup(resp.text))) ELSE @,
                 !.content_preview = Some(ContentPreview(resp.text)),
                 !.content_hash = Some(_calculate_content_hash(resp.text, bs4))]
    ELSE IF resp.status_code = 403 THEN [info EXCEPT !.error = Some(ForbiddenError)]
    ELSE IF resp.status_code = 404 THEN [info EXCEPT !.error = Some(NotFoundError)]
    ELSE [info EXCEPT !.error = Some(HttpError(resp.status_code))]

OnResponse(info, resp, bs4) ==
    IF IsSuccess(resp)
    THEN [info EXCEPT
            !.accessible = TRUE,
            !.title = IF TitleFound(resp.text)
                      THEN Some(Strip(TitleGroup(resp.text))) ELSE @,
            !.content_preview = Some(ContentPreview(resp.text)),
            !.content_hash = Some(_calculate_content_hash(resp.text, bs4))]
    ELSE IF resp.status_code = 403 THEN [info EXCEPT !.error = Some(ForbiddenError)]
    ELSE IF resp.status_code = 404 THEN [info EXCEPT !.error = Some(NotFoundError)]
    ELSE [info EXCEPT !.error = Some(HttpError(resp.status_code))]

\* An except clause that lets time-outs through.
CaughtByExcept_not_timeouts(e) == e # "ConnectTimeout"

\* "except Exception as e": every exception client.get raises is caught.
CaughtByExcept(e) == TRUE

\* The body of the except clause.
OnException(info, e) == [info EXCEPT !.error = Some(RequestFailedError(e))]

\* The template loop that never breaks.
LoopEnds_no_break(resp, index) == index = Len(base_urls)

\* Whether the template loop ends after the fetch of template index: by the
\* break of the success branch, or with the last template.
LoopEnds(resp, index) ==
    (resp.raises = NoneValue /\ IsSuccess(resp)) \/ index = Len(base_urls)

\* doc_info at the first "await client.get": the new DocumentInfo with the URL
\* of the first template.
BeginProbe(doc_id) ==
    [DocumentInfo(doc_id, <<>>, FALSE) EXCEPT !.url = Format(base_urls[1], doc_id)]

\* A result list that keeps accessible results only.
RecordResult_accessible_only(rs, info) == IF info.accessible THEN Append(rs, info) ELSE rs

\* results.append(doc_info)
RecordResult(rs, info) == Append(rs, info)

\* Whether the result counts as a fingerprint not seen before in the batch.
IsNewHash(info, seen) ==
    info.accessible /\ Truthy(info.content_hash) /\ TheValue(info.content_hash) \notin seen

\* A batch that sleeps after every probe.
SleepsAfter_every_probe(index, requested) == TRUE

\* if i < len(doc_ids) - 1
SleepsAfter(index, requested) == index < Len(requested) - 1

(***************************************************************************)
(* The inputs of the mutation engine that the model explores.              *)
(***************************************************************************)
MaxSeedLen == 3
MaxStrategies == 2

\* All sequences over S of length at most n.
SeqsUpTo(S, n) == UNION {[1..k -> S] : k \in 0..n}

\* Characters of every class the strategies distinguish, with both ends of
\* the digit and letter ranges.
SeedChars == {"0", "9", "a", "z", "Z", "-"}

\* The spec's end-to-end seed, a seed with two digit runs, seeds of length 4
\* and 5 around the length at which the sampling stride becomes 0, and seeds
\* whose rightmost letter is two places before the end of its case range, and
\* a seed whose second digit run also occurs inside its first.
ExampleSeeds == {
    <<"A","B","C","D","E","1","2","3","4","5">>,
    <<"a","9","9","-","0","1","b">>,
    <<"a","b","c","d">>,
    <<"a","b","c","d","e">>,
    <<"b","X","7">>,
    <<"7","-","x">>,
    <<"1","1","2","-","1","2">> }

Seeds == SeqsUpTo(SeedChars, MaxSeedLen) \cup Range(known_ids) \cup ExampleSeeds

StrategyNames ==
    {"last_char", "last_digit", "last_letter", "all_positions", "pattern_based", "unknown"}

StrategyInputs == {Some(l) : l \in SeqsUpTo(StrategyNames, MaxStrategies)} \cup {NoneValue}

UniqIdle == results = <<>> /\ report = NoneValue

StructIdle == structure = NoneValue

PatternIdle == sub_results = <<>>

HashIdle ==
    content_a = <<>> /\ content_b = <<>> /\ hash_a = NoneValue /\ hash_b = NoneValue

ProbeIdle ==
    /\ doc_ids = <<>> /\ delay = 0 /\ doc_index = 0 /\ url_index = 0
    /\ doc_info = NoneValue /\ response = NoneValue
    /\ seen_hashes = {} /\ batch_unique_count = 0 /\ log = <<>>

InitMutate ==
    /\ pc = "mutate_call"
    /\ base_id \in Seeds
    /\ strategies \in StrategyInputs
    /\ ids = <<>>
    /\ raised = FALSE
    /\ bs4_installed = FALSE
    /\ UniqIdle /\ HashIdle /\ ProbeIdle /\ StructIdle /\ PatternIdle

\* One call generate_incremented_ids(base_id, strategies).
GenerateIncrementedIds ==
    /\ pc = "mutate_call"
    /\ IF generate_incremented_ids_raises(base_id, strategies)
       THEN raised' = TRUE /\ ids' = <<>>
       ELSE raised' = FALSE /\ ids' = generate_incremented_ids(base_id, strategies)
    /\ pc' = "mutate_done"
    /\ UNCHANGED <<base_id, strategies, bs4_installed, uniqVars, hashVars, probeVars, structVars, patternVars>>

NextMutate == GenerateIncrementedIds

SpecMutate == InitMutate /\ [][NextMutate]_vars

(***************************************************************************)
(* _generate_pattern_based_ids on its own, with what each sub-heuristic    *)
(* returned.                                                               *)
(***************************************************************************)
InitPattern ==
    /\ pc = "pattern_call"
    /\ base_id \in Seeds
    /\ strategies = NoneValue /\ ids = <<>> /\ raised = FALSE
    /\ sub_results = <<>>
    /\ bs4_installed = FALSE
    /\ UniqIdle /\ HashIdle /\ ProbeIdle /\ StructIdle

\* One call _generate_pattern_based_ids(base_id): the four sub-heuristics run
\* in order, each with count // 4; the last one raises on a seed shorter than
\* count // 4, after the first three have returned.
GeneratePatternBasedIds ==
    /\ pc = "pattern_call"
    /\ \E first_three \in {<<_test_hyphen_variations(base_id, PatternCount \div 4),
                            _test_digit_sequence_patterns(base_id, PatternCount \div 4),
                            _test_segment_boundaries(base_id, PatternCount \div 4)>>} :
          IF _generate_pattern_based_ids_raises(base_id, PatternCount)
          THEN /\ raised' = TRUE
               /\ ids' = <<>>
               /\ sub_results' = first_three
          ELSE /\ raised' = FALSE
               /\ ids' = _generate_pattern_based_ids(base_id, PatternCount)
               /\ sub_results' =
                     Append(first_three, _test_length_variations(base_id, PatternCount \div 4))
    /\ pc' = "pattern_done"
    /\ UNCHANGED <<base_id, strategies, bs4_installed, uniqVars, hashVars, probeVars,
                   structVars>>

NextPattern == GeneratePatternBasedIds

SpecPattern == InitPattern /\ [][NextPattern]_vars

(***************************************************************************)
(* The inputs of the structure analyzer that the model explores.           *)
(***************************************************************************)
\* The seeds of the mutation engine, and strings with underscores.
StructureInputs == Seeds \cup SeqsUpTo({"_", "-", "7", "q"}, MaxSeedLen)

InitStructure ==
    /\ pc = "structure_call"
    /\ base_id \in StructureInputs
    /\ strategies = NoneValue /\ ids = <<>> /\ raised = FALSE
    /\ structure = NoneValue
    /\ bs4_installed = FALSE
    /\ UniqIdle /\ HashIdle /\ ProbeIdle /\ PatternIdle

\* One call analyze_id_structure(base_id); nothing in it raises.
AnalyzeIdStructure ==
    /\ pc = "structure_call"
    /\ structure' = Some(analyze_id_structure(base_id))
    /\ pc' = "structure_done"
    /\ UNCHANGED <<bs4_installed, mutateVars, uniqVars, hashVars, probeVars, patternVars>>

NextStructure == AnalyzeIdStructure

SpecStructure == InitStructure /\ [][NextStructure]_vars

(***************************************************************************)
(* The inputs of the uniqueness analyzer that the model explores.          *)
(***************************************************************************)
MaxBatch == 4

\* An absent fingerprint, an empty one, and the digests of two texts.
HashInputs == {NoneValue, Some(<<>>), Some(Sha256(<<"a">>)), Some(Sha256(<<"b">>))}

\* Results of every accessibility, with and without a fingerprint.
ResultInputs ==
    {[DocumentInfo(<<"x">>, <<"u">>, a) EXCEPT !.content_hash = h] :
        a \in BOOLEAN, h \in HashInputs}

MutateIdle == base_id = <<>> /\ strategies = NoneValue /\ ids = <<>> /\ raised = FALSE

InitUniq ==
    /\ pc = "uniq_call"
    /\ results \in SeqsUpTo(ResultInputs, MaxBatch)
    /\ report = NoneValue
    /\ bs4_installed = FALSE
    /\ MutateIdle /\ HashIdle /\ ProbeIdle /\ StructIdle /\ PatternIdle

\* One call analyze_uniqueness(results).
AnalyzeUniqueness ==
    /\ pc = "uniq_call"
    /\ report' = Some(analyze_uniqueness(results))
    /\ pc' = "uniq_done"
    /\ UNCHANGED <<results, bs4_installed, mutateVars, hashVars, probeVars, structVars, patternVars>>

NextUniq == AnalyzeUniqueness

SpecUniq == InitUniq /\ [][NextUniq]_vars

(***************************************************************************)
(* The raw contents the fingerprint is computed for: pairs of pages that   *)
(* are the same page with different page footers and time stamps.          *)
(***************************************************************************)
MaxParts == 2

\* 'Page N of M'
PageFooter(n, m) == <<"P","a","g","e"," ">> \o IntToStr(n) \o <<" ","o","f"," ">> \o IntToStr(m)

\* 'H:MM:SS AM' and 'H:MM:SS PM'
TimeStamp(h, m, sec, half) ==
    IntToStr(h) \o <<":">> \o ZFill(IntToStr(m), 2) \o <<":">> \o ZFill(IntToStr(sec), 2)
        \o <<" ">> \o half

\* The footers and time stamps a page is filled with.
Footers == {PageFooter(1, 5), PageFooter(2, 5), PageFooter(3, 10)}
TimeStamps == {TimeStamp(2, 15, 7, <<"P","M">>), TimeStamp(12, 15, 7, <<"P","M">>),
               TimeStamp(9, 0, 0, <<"A","M">>)}
Noises == [footer : Footers, stamp : TimeStamps]
BaseNoise == [footer |-> PageFooter(1, 5), stamp |-> TimeStamp(2, 15, 7, <<"P","M">>)]

\* The parts of a page body: fixed text, or a slot for a footer or a time stamp.
PartInputs == {<<"H","i">>, <<"N","o"," ","3">>, <<"footer">>, <<"stamp">>}

\* How the parts are laid out: each in an element of its own, as words of
\* one text, or one straight after the other.
Layouts == {"elements", "words", "adjacent"}

Render(part, noise) ==
    IF part = <<"footer">> THEN noise.footer
    ELSE IF part = <<"stamp">> THEN noise.stamp
    ELSE part

\* The page with the given parts, layout and noise.
RawContent(parts, layout, noise) ==
    LET rendered == [k \in 1..Len(parts) |-> Render(parts[k], noise)]
        inner    == IF layout = "elements"
                    THEN Flatten([k \in 1..Len(parts) |->
                                     <<"<","s","p","a","n",">">> \o rendered[k] \o <<"<","/","s","p","a","n",">">>])
                    ELSE IF layout = "words" THEN Join(rendered, <<" ">>)
                    ELSE Flatten(rendered)
    IN <<"<","t","i","t","l","e",">","D","o","c","<","/","t","i","t","l","e",">","<","b","o","d","y",">">> \o inner \o <<"<","/","b","o","d","y",">">>

InitHash ==
    /\ pc = "hash_call"
    /\ bs4_installed \in BOOLEAN
    /\ \E parts \in SeqsUpTo(PartInputs, MaxParts), layout \in Layouts, noise \in Noises :
          /\ content_a = RawContent(parts, layout, BaseNoise)
          /\ content_b = RawContent(parts, layout, noise)
    /\ hash_a = NoneValue
    /\ hash_b = NoneValue
    /\ raised = FALSE
    /\ base_id = <<>> /\ strategies = NoneValue /\ ids = <<>>
    /\ UniqIdle /\ ProbeIdle /\ StructIdle /\ PatternIdle

\* _calculate_content_hash on each of the two contents.
CalculateContentHash ==
    /\ pc = "hash_call"
    /\ hash_a' = Some(_calculate_content_hash(content_a, bs4_installed))
    /\ hash_b' = Some(_calculate_content_hash(content_b, bs4_installed))
    /\ pc' = "hash_done"
    /\ UNCHANGED <<bs4_installed, content_a, content_b, mutateVars, uniqVars, probeVars, structVars, patternVars>>

NextHash == CalculateContentHash

SpecHash == InitHash /\ [][NextHash]_vars

(***************************************************************************)
(* The batches and the remote host's answers that the model explores.      *)
(***************************************************************************)
MaxDocs == 2

\* The batches: the first n of the IDs "1", "2", ...
DocIdInputs == {[k \in 1..n |-> IntToStr(k)] : n \in 0..MaxDocs}

\* delay, in tenths of a second: the 1.5 of test_content_hashing.py.
DelayInputs == {15}

\* A page with a title, and the empty body.
Bodies == {<<"<","t","i","t","l","e",">","T","<","/","t","i","t","l","e",">","H","i">>, <<>>}

StatusCodes == {200, 204, 403, 404, 500}
TransportErrors == {"ConnectTimeout", "ConnectError"}

Responses ==
    {Response(200, b) : b \in Bodies}
        \cup {Response(c, <<>>) : c \in StatusCodes \ {200}}
        \cup {Raises(e) : e \in TransportErrors}

InitProbe ==
    /\ pc = "batch_call"
    /\ bs4_installed \in BOOLEAN
    /\ doc_ids \in DocIdInputs
    /\ delay \in DelayInputs
    /\ doc_index = 0 /\ url_index = 0
    /\ doc_info = NoneValue /\ response = NoneValue
    /\ seen_hashes = {} /\ batch_unique_count = 0 /\ log = <<>>
    /\ results = <<>> /\ report = NoneValue
    /\ raised = FALSE
    /\ base_id = <<>> /\ strategies = NoneValue /\ ids = <<>>
    /\ HashIdle /\ StructIdle /\ PatternIdle

\* batch_test_documents is called: up to the first "await client.get" of the
\* first probe, or to the return for an empty batch.
BatchTestDocuments ==
    /\ pc = "batch_call"
    /\ results' = <<>>
    /\ seen_hashes' = {}
    /\ batch_unique_count' = 0
    /\ doc_index' = 0
    /\ IF Len(doc_ids) = 0
       THEN pc' = "batch_done" /\ UNCHANGED <<url_index, doc_info>>
       ELSE /\ pc' = "awaiting_get"
            /\ url_index' = 1
            /\ doc_info' = Some(BeginProbe(doc_ids[1]))
    /\ UNCHANGED <<bs4_installed, doc_ids, delay, response, log, report, raised,
                   base_id, strategies, ids, hashVars, structVars, patternVars>>

\* "await client.get" completes: the rest of this iteration of the template
\* loop and, when the loop ends, the return of test_document_access and the
\* batch loop's body up to its "await asyncio.sleep" or its return.
GetCompletes ==
    /\ pc = "awaiting_get"
    /\ \E r \in Responses :
          LET info    == TheValue(doc_info)
              failed  == r.raises # NoneValue
              escapes == failed /\ ~CaughtByExcept(TheValue(r.raises))
          IN /\ response' = Some(r)
             /\ log' = Append(log, [event |-> "get", doc |-> doc_index, url |-> info.url,
                                    ok |-> ~failed /\ IsSuccess(r), seconds |-> 0])
             /\ IF escapes
                THEN /\ raised' = TRUE
                     /\ pc' = "batch_done"
                     /\ UNCHANGED <<url_index, doc_info, results, seen_hashes,
                                    batch_unique_count>>
                ELSE \E after \in {IF failed THEN OnException(info, TheValue(r.raises))
                                   ELSE OnResponse(info, r, bs4_installed)} :
                        IF ~LoopEnds(r, url_index)
                        THEN /\ url_index' = url_index + 1
                             /\ doc_info' =
                                   Some([after EXCEPT
                                            !.url = Format(base_urls[url_index + 1], info.id)])
                             /\ UNCHANGED <<pc, raised, results, seen_hashes,
                                            batch_unique_count>>
                        ELSE /\ doc_info' = Some(after)
                             /\ results' = RecordResult(results, after)
                             /\ IF IsNewHash(after, seen_hashes)
                                THEN /\ seen_hashes' = seen_hashes \cup after.content_hash
                                     /\ batch_unique_count' = batch_unique_count + 1
                                ELSE UNCHANGED <<seen_hashes, batch_unique_count>>
                             /\ pc' = IF SleepsAfter(doc_index, doc_ids) THEN "sleeping"
                                      ELSE "batch_done"
                             /\ UNCHANGED <<url_index, raised>>
    /\ UNCHANGED <<bs4_installed, doc_ids, delay, doc_index, report,
                   base_id, strategies, ids, hashVars, structVars, patternVars>>

\* "await asyncio.sleep(delay)" completes: the loop moves to the next ID, up
\* to the first "await client.get" of its probe.
SleepCompletes ==
    /\ pc = "sleeping"
    /\ log' = Append(log, [event |-> "sleep", doc |-> doc_index, url |-> <<>>,
                           ok |-> FALSE, seconds |-> delay])
    /\ doc_index' = doc_index + 1
    /\ response' = NoneValue
    /\ IF doc_index + 1 < Len(doc_ids)
       THEN /\ pc' = "awaiting_get"
            /\ url_index' = 1
            /\ doc_info' = Some(BeginProbe(doc_ids[doc_index + 2]))
       ELSE pc' = "batch_done" /\ UNCHANGED <<url_index, doc_info>>
    /\ UNCHANGED <<bs4_installed, doc_ids, delay, results, seen_hashes, batch_unique_count,
                   report, raised, base_id, strategies, ids, hashVars, structVars, patternVars>>

NextProbe == BatchTestDocuments \/ GetCompletes \/ SleepCompletes

SpecProbe == InitProbe /\ [][NextProbe]_vars

(***************************************************************************)
(* Claims about generate_incremented_ids, checked under SpecMutate.        *)
(***************************************************************************)
\* The call under study has returned or raised.
MutateDone == pc = "mutate_done"

\* The call was generate_incremented_ids(base_id, [strategy]) and returned.
Returned(strategy) ==
    MutateDone /\ ~raised /\ strategies = Some(<<strategy>>)

\* p is the position of the rightmost digit of s.
IsRightmostDigit(s, p) ==
    /\ p \in 1..Len(s)
    /\ isdigit(s[p])
    /\ \A q \in (p + 1)..Len(s) : ~isdigit(s[q])

\* c and s have the same length and differ at position p and nowhere else.
DiffersExactlyAt(c, s, p) ==
    /\ Len(c) = Len(s)
    /\ c[p] # s[p]
    /\ \A q \in 1..Len(s) : q # p => c[q] = s[q]

\* C1 as stated: for a non-empty seed, the last_digit strategy returns at most
\* 10 candidates, each differing from the seed in exactly one position, the
\* position of the seed's rightmost digit.
C1_EveryCandidateDiffers ==
    Returned("last_digit") /\ Len(base_id) > 0 =>
        /\ Len(ids) <= 10
        /\ \A k \in 1..Len(ids) :
              \E p \in 1..Len(base_id) :
                  IsRightmostDigit(base_id, p) /\ DiffersExactlyAt(ids[k], base_id, p)

\* C1 amended: for a non-empty seed, the last_digit strategy returns at most 10
\* candidates; every candidate other than the seed itself differs from the seed
\* in exactly one position, the position of the seed's rightmost digit; and when
\* the seed has a digit the seed itself is among the candidates (offset 10 puts
\* the original digit back).
C1_CandidatesAtRightmostDigit ==
    Returned("last_digit") /\ Len(base_id) > 0 =>
        /\ Len(ids) <= 10
        /\ \A k \in 1..Len(ids) :
              \/ ids[k] = base_id
              \/ \E p \in 1..Len(base_id) :
                    IsRightmostDigit(base_id, p) /\ DiffersExactlyAt(ids[k], base_id, p)
        /\ (\E p \in 1..Len(base_id) : isdigit(base_id[p])) =>
              \E k \in 1..Len(ids) : ids[k] = base_id

\* C1 witness: last_digit has returned 10 candidates for a seed whose rightmost
\* digit is followed by other characters and preceded by another digit.
C1_Witness ==
    /\ Returned("last_digit")
    /\ Len(ids) = 10
    /\ \E p \in 2..(Len(base_id) - 1) :
          IsRightmostDigit(base_id, p) /\ \E q \in 1..(p - 1) : isdigit(base_id[q])

\* C2 as stated: generate_incremented_ids never raises, whatever the seed
\* (the empty string and seeds shorter than 5 characters included) and whatever
\* the strategies (pattern_based and the default list included).
C2_NeverRaises == MutateDone => ~raised

\* The seed holds a digit.
HasDigit(s) == \E p \in 1..Len(s) : isdigit(s[p])

\* s with the character at position p replaced by the digit (d + i) mod 10,
\* where d is the digit at p.
WithDigitAdvanced(s, p, i) ==
    [s EXCEPT ![p] = DigitChar((DigitValue(s[p]) + i) % 10)]

\* C11: for a seed that holds a digit, the last_digit strategy returns, without
\* repetition, exactly the 10 strings obtained by replacing the rightmost digit
\* d by (d+i) mod 10 for i = 1..10, every other position unchanged (offset 10
\* gives the seed itself); for a seed without a digit it returns nothing.
C11_LastDigitCycle ==
    Returned("last_digit") =>
        IF HasDigit(base_id)
        THEN /\ Len(ids) = 10
             /\ \E p \in 1..Len(base_id) :
                   /\ IsRightmostDigit(base_id, p)
                   /\ Range(ids) = {WithDigitAdvanced(base_id, p, i) : i \in 1..10}
             /\ \A j, k \in 1..Len(ids) : j # k => ids[j] # ids[k]
        ELSE ids = <<>>

\* C11 witness: last_digit has returned for the seed 'ABCDE12345', and
\* 'ABCDE12346', 'ABCDE12340' and the seed itself are among the 10 candidates.
C11_Witness ==
    /\ Returned("last_digit")
    /\ base_id = <<"A","B","C","D","E","1","2","3","4","5">>
    /\ Len(ids) = 10
    /\ <<"A","B","C","D","E","1","2","3","4","6">> \in Range(ids)
    /\ <<"A","B","C","D","E","1","2","3","4","0">> \in Range(ids)
    /\ base_id \in Range(ids)

\* The names requested by the call: those of the list given, or of the default
\* list when none is given.
RequestedNames ==
    IF strategies = NoneValue
    THEN {"last_char", "last_digit", "last_letter", "all_positions", "pattern_based"}
    ELSE Range(TheValue(strategies))

\* The candidates of one recognised strategy with its default count, as a set;
\* nothing for any other name.
CandidatesOf(id, name) ==
    CASE name = "last_char"     -> Range(_increment_last_char(id, 5))
      [] name = "last_digit"    -> Range(_increment_last_digit(id, 10))
      [] name = "last_letter"   -> Range(_increment_last_letter(id, 5))
      [] name = "all_positions" -> Range(_increment_all_positions(id, 2))
      [] name = "pattern_based" -> Range(_generate_pattern_based_ids(id, 20))
      [] OTHER                  -> {}

\* C12: the list generate_incremented_ids returns has no duplicates and holds
\* exactly the union of the outputs of the requested strategies whose names are
\* recognised; a name that is not recognised adds nothing and is no error (a
\* call that requests no recognised strategy returns), and an empty strategy
\* list gives the empty result for every seed.
C12_DeduplicatedUnion ==
    /\ MutateDone /\ ~raised =>
          /\ \A j, k \in 1..Len(ids) : j # k => ids[j] # ids[k]
          /\ Range(ids) = UNION {CandidatesOf(base_id, name) : name \in RequestedNames}
    /\ MutateDone /\ RequestedNames \subseteq {"unknown"} => ~raised /\ ids = <<>>
    /\ MutateDone /\ raised => "pattern_based" \in RequestedNames

\* C12 witness: a call with two recognised strategies whose outputs overlap:
\* the returned list is shorter than the two outputs together.
C12_Witness ==
    /\ MutateDone /\ ~raised
    /\ strategies = Some(<<"last_char", "all_positions">>)
    /\ Len(ids) > 0
    /\ Len(ids) < Len(_increment_last_char(base_id, 5))
                     + Len(_increment_all_positions(base_id, 2))

\* p is the position of the rightmost letter of s.
IsRightmostLetter(s, p) ==
    /\ p \in 1..Len(s)
    /\ isalpha(s[p])
    /\ \A q \in (p + 1)..Len(s) : ~isalpha(s[q])

\* The alphabet of the case of letter c.
CaseOf(c) == IF islower(c) THEN Lower ELSE Upper

\* The number of letters after c in its case range.
DistanceToEnd(c) == 26 - IndexOf(c, CaseOf(c))

\* The candidates expected for a seed s whose letter at position p is shifted:
\* one for each offset 1..5 that stays within the case range, each equal to s
\* except for the shifted letter at p.
ShiftedWithinCase(s, p) ==
    {[s EXCEPT ![p] = CaseOf(s[p])[IndexOf(s[p], CaseOf(s[p])) + i]] :
        i \in 1..Min(5, DistanceToEnd(s[p]))}

\* C14: last_letter, and last_char on a seed that ends in a letter, shift the
\* letter by 1..5 within its case and never wrap: the candidates are those of the
\* offsets that do not pass 'z' or 'Z', so there are min(5, distance of the
\* letter to the end of its case range) of them, each differing from the seed
\* only at the rightmost letter; a seed without a letter yields nothing under
\* last_letter.
C14_LettersNeverWrap ==
    /\ Returned("last_letter") =>
          IF \E p \in 1..Len(base_id) : isalpha(base_id[p])
          THEN \E p \in 1..Len(base_id) :
                  /\ IsRightmostLetter(base_id, p)
                  /\ Len(ids) = Min(5, DistanceToEnd(base_id[p]))
                  /\ Range(ids) = ShiftedWithinCase(base_id, p)
          ELSE ids = <<>>
    /\ Returned("last_char") /\ Len(base_id) > 0 /\ isalpha(base_id[Len(base_id)]) =>
          /\ Len(ids) = Min(5, DistanceToEnd(base_id[Len(base_id)]))
          /\ Range(ids) = ShiftedWithinCase(base_id, Len(base_id))

\* C14 witness: last_letter has returned the two candidates 'bY7' and 'bZ7' for
\* the seed 'bX7', whose rightmost letter is two places before 'Z'.
C14_Witness ==
    /\ Returned("last_letter")
    /\ base_id = <<"b","X","7">>
    /\ Range(ids) = {<<"b","Y","7">>, <<"b","Z","7">>}
    /\ Len(ids) = 2

(***************************************************************************)
(* Claims about _generate_pattern_based_ids, checked under SpecPattern.    *)
(***************************************************************************)
PatternDone == pc = "pattern_done"

\* What the digit-sequence sub-heuristic returned.
DigitCandidates == sub_results[2]

\* The maximal digit runs of s of length >= 2, as pairs of first and last
\* position.
LongDigitRuns(s) ==
    {run \in (1..Len(s)) \X (1..Len(s)) :
        /\ run[2] > run[1]
        /\ \A k \in run[1]..run[2] : isdigit(s[k])
        /\ run[1] = 1 \/ ~isdigit(s[run[1] - 1])
        /\ run[2] = Len(s) \/ ~isdigit(s[run[2] + 1])}

\* The decimal digits of n >= 0, preceded by zeros up to width; wider than
\* width when n has more digits.
Padded(n, width) ==
    LET digits == IntToStr(n)
        zeros  == Max(0, width - Len(digits))
    IN [k \in 1..(zeros + Len(digits)) |-> IF k <= zeros THEN "0" ELSE digits[k - zeros]]

\* The value of a digit run plus delta, clamped at 0.
Perturbed(s, run, delta) == Max(0, ParseInt(SubSeq(s, run[1], run[2])) + delta)

\* C15 as stated: every candidate of the digit-sequence sub-heuristic is the
\* seed with one maximal digit run of length >= 2 replaced by its value plus a
\* delta in {-2,-1,1,2}, clamped at 0 and zero-padded: the replacement is as
\* wide as the run, so the candidate is as long as the seed and differs from it
\* only inside that run.
C15_SameWidthInsideRun ==
    PatternDone =>
        \A k \in 1..Len(DigitCandidates) :
            LET c == DigitCandidates[k] IN
            \E run \in LongDigitRuns(base_id), delta \in {-2, -1, 1, 2} :
                LET new == Padded(Perturbed(base_id, run, delta), run[2] - run[1] + 1) IN
                /\ Len(new) = run[2] - run[1] + 1
                /\ Len(c) = Len(base_id)
                /\ SubSeq(c, run[1], run[2]) = new
                /\ \A q \in 1..Len(base_id) : q \notin run[1]..run[2] => c[q] = base_id[q]

\* C15 amended: every candidate of the digit-sequence sub-heuristic differs from
\* the seed and is the seed with the first occurrence of the text of one maximal
\* digit run of length >= 2 replaced by that run's value plus a delta in
\* {-2,-1,1,2}, clamped at 0 and zero-padded up to the run's width: the
\* replacement is as wide as the run, or one character wider when the sum needs
\* one more digit than the run has, so the candidate is as long as the seed or
\* one character longer.
C15_FirstOccurrencePadded ==
    PatternDone =>
        \A k \in 1..Len(DigitCandidates) :
            LET c == DigitCandidates[k] IN
            /\ c # base_id
            /\ Len(c) \in {Len(base_id), Len(base_id) + 1}
            /\ \E run \in LongDigitRuns(base_id), delta \in {-2, -1, 1, 2} :
                  LET seq   == SubSeq(base_id, run[1], run[2])
                      new   == Padded(Perturbed(base_id, run, delta), Len(seq))
                      first == CHOOSE i \in 1..run[1] :
                                  /\ OccursAt(base_id, seq, i)
                                  /\ \A j \in 1..(i - 1) : ~OccursAt(base_id, seq, j)
                  IN /\ Len(new) \in {Len(seq), Len(seq) + 1}
                     /\ Len(new) = Len(seq) + 1 => new = IntToStr(Perturbed(base_id, run, delta))
                     /\ c = Take(base_id, first - 1) \o new
                               \o Drop(base_id, first - 1 + Len(seq))

\* C15 witness: for the seed 'a99-01b' the sub-heuristic has returned
\* 'a100-01b' (99 + 1 needs three digits) and 'a99-00b' (01 - 2 clamped at 0 and
\* padded).
C15_Witness ==
    /\ PatternDone
    /\ base_id = <<"a","9","9","-","0","1","b">>
    /\ \E k \in 1..Len(DigitCandidates) :
          DigitCandidates[k] = <<"a","1","0","0","-","0","1","b">>
    /\ \E k \in 1..Len(DigitCandidates) :
          DigitCandidates[k] = <<"a","9","9","-","0","0","b">>

\* The positions of s at which a letter and a digit meet.
Boundaries(s) ==
    {i \in 1..(Len(s) - 1) :
        \/ isalpha(s[i]) /\ isdigit(s[i + 1])
        \/ isdigit(s[i]) /\ isalpha(s[i + 1])}

RECURSIVE TotalLen(_)
\* The sum of the lengths of a list of lists.
TotalLen(lists) ==
    IF Len(lists) = 0 THEN 0 ELSE Len(Head(lists)) + TotalLen(Tail(lists))

\* C16: with the default target count of 20, each of the four sub-heuristics of
\* pattern_based (hyphens, digit sequences, segment boundaries, lengths)
\* contributes at most 5 candidates, so that pattern_based contributes at most
\* 20 candidates for every seed on which it returns.
C16_PatternBasedCapped ==
    PatternDone =>
        /\ \A k \in 1..Len(sub_results) : Len(sub_results[k]) <= 5
        /\ ~raised =>
              /\ Len(sub_results) = 4
              /\ Len(ids) = TotalLen(sub_results)
              /\ Len(ids) <= 20

\* C16 witness: pattern_based has returned for a seed with more than 5
\* letter/digit boundaries and two digit runs of length >= 2; the digit-sequence,
\* boundary and length sub-heuristics each contributed exactly 5 candidates.
C16_Witness ==
    /\ PatternDone /\ ~raised
    /\ Cardinality(Boundaries(base_id)) > 5
    /\ Cardinality(LongDigitRuns(base_id)) >= 2
    /\ Len(sub_results[2]) = 5
    /\ Len(sub_results[3]) = 5
    /\ Len(sub_results[4]) = 5

(***************************************************************************)
(* Claims about analyze_id_structure, checked under SpecStructure.         *)
(***************************************************************************)
StructureDone == pc = "structure_done"

\* C13: analyze_id_structure returns for every string without raising, and for
\* the empty string it returns length 0, an empty character histogram, every
\* boolean false (has-hyphen, has-underscore, alphanumeric-only,
\* starts-with-digit, alternating) and empty lists of digit runs, letter runs
\* and separators.
C13_TotalAndEmptyString ==
    StructureDone =>
        /\ ~raised
        /\ structure # NoneValue
        /\ base_id = <<>> =>
              LET r == TheValue(structure) IN
              /\ r.length = 0
              /\ DOMAIN r.character_counts = {}
              /\ ~r.has_hyphens
              /\ ~r.has_underscores
              /\ ~r.alphanumeric_only
              /\ ~r.starts_with_digit
              /\ ~r.pattern_analysis.alternating_pattern
              /\ r.pattern_analysis.consecutive_digits = <<>>
              /\ r.pattern_analysis.consecutive_letters = <<>>
              /\ r.pattern_analysis.special_chars = <<>>

\* C13 witness: analyze_id_structure has returned for the empty string.
C13_Witness ==
    StructureDone /\ base_id = <<>> /\ structure # NoneValue /\ TheValue(structure).length = 0

(***************************************************************************)
(* Claims about analyze_uniqueness, checked under SpecUniq.                *)
(***************************************************************************)
UniqDone == pc = "uniq_done"

\* The report of the finished call.
TheReport == TheValue(report)

\* The batch is empty or holds no accessible result.
NoneAccessible == \A k \in 1..Len(results) : ~results[k].accessible

\* The distinct fingerprints among the accessible results of the batch.
AccessibleFingerprints ==
    {TheValue(results[k].content_hash) :
        k \in {j \in 1..Len(results) :
                  results[j].accessible /\ Truthy(results[j].content_hash)}}

\* C3 as stated: on an empty batch and on a batch in which every result is
\* inaccessible, the report has every count zero (total tested, accessible,
\* unique, duplicate), rate 0.0 and no unique fingerprints.
C3_AllCountsZero ==
    UniqDone /\ NoneAccessible =>
        /\ TheReport.total_tested = 0
        /\ TheReport.accessible_count = 0
        /\ TheReport.unique_count = 0
        /\ TheReport.duplicate_count = 0
        /\ TheReport.uniqueness_rate = ZeroRate
        /\ TheReport.unique_hashes = <<>>

\* C3 amended: on an empty batch and on a batch in which every result is
\* inaccessible, the call returns a report whose accessible, unique and
\* duplicate counts are zero, whose rate is 0.0 and whose list of unique
\* fingerprints is empty; total tested is the size of the batch, so it is
\* zero only for the empty batch.
C3_ZeroExceptTotalTested ==
    UniqDone /\ NoneAccessible =>
        /\ report # NoneValue
        /\ TheReport.total_tested = Len(results)
        /\ TheReport.accessible_count = 0
        /\ TheReport.unique_count = 0
        /\ TheReport.duplicate_count = 0
        /\ TheReport.uniqueness_rate = ZeroRate
        /\ TheReport.unique_hashes = <<>>

\* C3 witness: the report of a batch of two or more results, all inaccessible,
\* one of them carrying a fingerprint.
C3_Witness ==
    /\ UniqDone
    /\ NoneAccessible
    /\ Len(results) >= 2
    /\ \E k \in 1..Len(results) : Truthy(results[k].content_hash)

\* C4: for every batch, unique_count + duplicate_count = accessible_count,
\* unique_count is the number of distinct fingerprints among the accessible
\* results, and uniqueness_rate lies in [0,1] and is 0.0 when no result is
\* accessible.
C4_UniquenessInvariant ==
    UniqDone =>
        /\ TheReport.unique_count + TheReport.duplicate_count = TheReport.accessible_count
        /\ TheReport.accessible_count =
              Cardinality({k \in 1..Len(results) : results[k].accessible})
        /\ TheReport.unique_count = Cardinality(AccessibleFingerprints)
        /\ TheReport.uniqueness_rate.den > 0
        /\ 0 <= TheReport.uniqueness_rate.num
        /\ TheReport.uniqueness_rate.num <= TheReport.uniqueness_rate.den
        /\ TheReport.accessible_count = 0 => TheReport.uniqueness_rate = ZeroRate

\* C4 witness: the report of a batch with an inaccessible result, an accessible
\* result without a fingerprint and two accessible results sharing one.
C4_Witness ==
    /\ UniqDone
    /\ \E k \in 1..Len(results) : ~results[k].accessible
    /\ \E k \in 1..Len(results) :
          results[k].accessible /\ ~Truthy(results[k].content_hash)
    /\ TheReport.duplicate_count > 0
    /\ \E j, k \in 1..Len(results) :
          /\ j # k
          /\ results[j].accessible /\ results[k].accessible
          /\ Truthy(results[j].content_hash)
          /\ results[j].content_hash = results[k].content_hash

(***************************************************************************)
(* Claims about the content fingerprint, checked under SpecHash.           *)
(***************************************************************************)
HashDone == pc = "hash_done"

\* C5 as stated: two raw contents that differ only in their 'Page N of M'
\* footers and 'H:MM:SS AM/PM' time stamps have the identical fingerprint.
C5_NoiseInsensitive == HashDone => hash_a = hash_b

(***************************************************************************)
(* Claims about the probe runner, checked under SpecProbe.                 *)
(***************************************************************************)
\* batch_test_documents has returned or raised.
ProbeDone == pc = "batch_done"

\* The fetches logged for the ID at 0-based index k, in order.
GetsOf(k) == SelectSeq(log, LAMBDA e : e.event = "get" /\ e.doc = k)

\* The positions of the log that are delays.
Sleeps == {p \in 1..Len(log) : log[p].event = "sleep"}

\* The URL of the t-th template (edit view, plain-text export, published view)
\* for an ID.
ExpectedUrl(t, doc_id) ==
    <<"https://docs.google.com/document/d/">> \o doc_id
        \o <<(<<"/edit", "/export?format=txt", "/pub">>)[t]>>

\* C6: batch_test_documents returns exactly one result per requested ID, in
\* input order (result k has the id ids[k]), and every requested ID is probed
\* whatever the outcomes of the earlier probes: the call does not raise, and
\* no inaccessible result, error or fingerprint already seen ends it early or
\* skips an ID.
C6_OneResultPerId ==
    /\ \A k \in 1..Len(results) : k <= Len(doc_ids) /\ results[k].id = doc_ids[k]
    /\ pc = "awaiting_get" => Len(results) = doc_index
    /\ pc = "sleeping" => Len(results) = doc_index + 1
    /\ ProbeDone =>
          /\ ~raised
          /\ Len(results) = Len(doc_ids)
          /\ \A k \in 1..Len(doc_ids) :
                /\ Len(GetsOf(k - 1)) > 0
                /\ GetsOf(k - 1)[1].url = ExpectedUrl(1, doc_ids[k])

\* C6 witness: a finished batch of two different IDs whose first result is
\* inaccessible with an error and whose second result is accessible.
C6_Witness ==
    /\ ProbeDone
    /\ Len(doc_ids) = 2 /\ doc_ids[1] # doc_ids[2]
    /\ Len(results) = 2
    /\ ~results[1].accessible /\ results[1].error # NoneValue
    /\ results[2].accessible

\* C7: probing is sequential and throttled: the fetches of one ID are
\* consecutive, the fetches of the next ID start only after them and after
\* exactly one delay of the given length, no delay follows the probe of the
\* last ID, and a finished batch of n IDs has made exactly max(0, n-1) delays.
C7_SequentialThrottled ==
    /\ Len(log) > 0 => log[1].event = "get" /\ log[1].doc = 0
    /\ \A p \in 1..(Len(log) - 1) :
          log[p].event = "get" /\ log[p + 1].event = "get" => log[p + 1].doc = log[p].doc
    /\ \A p \in Sleeps :
          /\ log[p].seconds = delay
          /\ p > 1 /\ log[p - 1].event = "get" /\ log[p - 1].doc = log[p].doc
          /\ log[p].doc < Len(doc_ids) - 1
          /\ p < Len(log) => log[p + 1].event = "get" /\ log[p + 1].doc = log[p].doc + 1
    /\ pc = "sleeping" => doc_index < Len(doc_ids) - 1
    /\ ProbeDone => Cardinality(Sleeps) = Max(0, Len(doc_ids) - 1)

\* C7 witness: a finished batch of two IDs with one delay of 1.5 s in its log,
\* between several fetches for the first ID and several for the second.
C7_Witness ==
    /\ ProbeDone
    /\ Len(doc_ids) = 2
    /\ delay = 15
    /\ Cardinality(Sleeps) = 1
    /\ Len(GetsOf(0)) >= 2 /\ Len(GetsOf(1)) >= 2

\* C8: test_document_access fetches the templates in the order edit view,
\* plain-text export, published view, and stops at the first that returns
\* success (status 200): nothing is fetched after it, the result is accessible
\* and its url is that template's URL; when none succeeds all three are
\* fetched and the result is inaccessible.
C8_TemplatesInOrder ==
    /\ pc = "awaiting_get" =>
          /\ Len(GetsOf(doc_index)) = url_index - 1
          /\ \A t \in 1..(url_index - 1) : ~GetsOf(doc_index)[t].ok
          /\ TheValue(doc_info).url = ExpectedUrl(url_index, doc_ids[doc_index + 1])
    /\ \A k \in 1..Len(results) :
          LET gets == GetsOf(k - 1)
              n    == Len(gets)
          IN /\ n \in 1..3
             /\ \A t \in 1..n : gets[t].url = ExpectedUrl(t, doc_ids[k])
             /\ \A t \in 1..(n - 1) : ~gets[t].ok
             /\ results[k].accessible = gets[n].ok
             /\ results[k].url = gets[n].url
             /\ ~results[k].accessible => n = 3

\* C8 witness: a finished batch with a result that succeeded at the second
\* template (two fetches, the plain-text export URL) and an inaccessible
\* result (three fetches).
C8_Witness ==
    /\ ProbeDone
    /\ \E k \in 1..Len(results) :
          /\ results[k].accessible
          /\ results[k].url = ExpectedUrl(2, doc_ids[k])
          /\ Len(GetsOf(k - 1)) = 2
    /\ \E k \in 1..Len(results) : ~results[k].accessible /\ Len(GetsOf(k - 1)) = 3

\* C9: a transport failure of a template fetch is recorded in the result's
\* error field and is not raised: after it the next template of the same ID is
\* awaited, or after the last template the result is appended and the batch
\* goes on to its delay and next ID; a finished batch has fetched for every ID.
C9_TransportFailureRecorded ==
    /\ ~raised
    /\ \A o \in response :
          o.raises # NoneValue =>
             LET info == TheValue(doc_info)
                 last == log[Len(log)]
             IN /\ last.event = "get" /\ last.doc = doc_index /\ ~last.ok
                /\ info.error = Some(<<"Request failed: ", TheValue(o.raises)>>)
                /\ IF last.url # ExpectedUrl(3, info.id)
                   THEN /\ pc = "awaiting_get"
                        /\ \E t \in 1..2 : /\ last.url = ExpectedUrl(t, info.id)
                                           /\ info.url = ExpectedUrl(t + 1, info.id)
                   ELSE /\ Len(results) = doc_index + 1
                        /\ results[Len(results)] = info
                        /\ pc = IF doc_index + 1 < Len(doc_ids) THEN "sleeping"
                                ELSE "batch_done"
    /\ ProbeDone => \A k \in 1..Len(doc_ids) : Len(GetsOf(k - 1)) > 0

\* C9 witness: a finished batch of two IDs: the last template of the first ID
\* timed out, leaving it inaccessible with that error, and the second ID was
\* still probed, had a connection error and then succeeded at a later template.
C9_Witness ==
    /\ ProbeDone
    /\ Len(results) = 2
    /\ ~results[1].accessible
    /\ results[1].error = Some(<<"Request failed: ", "ConnectTimeout">>)
    /\ results[2].accessible
    /\ results[2].error = Some(<<"Request failed: ", "ConnectError">>)

\* The error text for a status that is not a success: forbidden/private for
\* 403, not found for 404, otherwise the generic text with the status code.
ExpectedError(status_code) ==
    IF status_code = 403 THEN <<"Access forbidden - document may be private">>
    ELSE IF status_code = 404 THEN <<"Document not found">>
    ELSE <<"HTTP ">> \o IntToStr(status_code)

\* C10 as stated: every 2xx response counts as success; every non-2xx
\* response sets the error field by its status (403, 404, otherwise generic
\* with the code), so that when no template succeeds the error describes the
\* last template tried.
C10_Every2xxSucceeds ==
    \A o \in response :
        o.raises = NoneValue =>
           LET info == TheValue(doc_info) IN
           IF o.status_code \in 200..299
           THEN info.accessible /\ log[Len(log)].ok
           ELSE ~info.accessible /\ info.error = Some(ExpectedError(o.status_code))

\* C10 amended: only status 200 counts as success; every other response, the
\* other 2xx statuses included, leaves the result inaccessible and sets its
\* error field by its status (403, 404, otherwise generic with the code), so
\* that when no template succeeds the error describes the last template tried.
C10_Only200Succeeds ==
    \A o \in response :
        o.raises = NoneValue =>
           LET info == TheValue(doc_info) IN
           IF o.status_code = 200
           THEN info.accessible /\ log[Len(log)].ok
           ELSE /\ ~info.accessible /\ ~log[Len(log)].ok
                /\ info.error = Some(ExpectedError(o.status_code))
                /\ Len(results) = doc_index + 1 => results[Len(results)].error = info.error

\* C10 witness: a finished batch whose last response had status 204: the
\* result is inaccessible and its error is "HTTP 204".
C10_Witness ==
    /\ ProbeDone
    /\ \E o \in response : o.raises = NoneValue /\ o.status_code = 204
    /\ Len(results) > 0
    /\ ~results[Len(results)].accessible
    /\ results[Len(results)].error = Some(<<"HTTP ", "2", "0", "4">>)

\* C17 as stated: every result of test_document_access that is marked
\* accessible has no error, whatever the outcomes of the earlier templates.
C17_AccessibleHasNoError ==
    \A k \in 1..Len(results) : results[k].accessible => results[k].error = NoneValue

\* C18: for every result of test_document_access the fingerprint and the
\* preview are set if and only if the result is accessible: an accessible
\* result carries a fingerprint that analyze_uniqueness counts (not None, not
\* empty) and a preview, and an inaccessible result carries no fingerprint, no
\* preview and no title.
C18_FieldsSetIffAccessible ==
    \A k \in 1..Len(results) :
        IF results[k].accessible
        THEN /\ results[k].content_hash # NoneValue
             /\ Truthy(results[k].content_hash)
             /\ results[k].content_preview # NoneValue
             /\ analyze_uniqueness(<<results[k]>>).unique_count = 1
        ELSE /\ results[k].content_hash = NoneValue
             /\ results[k].content_preview = NoneValue
             /\ results[k].title = NoneValue

\* C18 witness: a finished batch with an accessible result for an empty body
\* (no title, the empty preview, a fingerprint) and an inaccessible result.
C18_Witness ==
    /\ ProbeDone
    /\ \E k \in 1..Len(results) :
          /\ results[k].accessible
          /\ results[k].title = NoneValue
          /\ results[k].content_preview = Some(<<>>)
          /\ results[k].content_hash # NoneValue
    /\ \E k \in 1..Len(results) :
          /\ ~results[k].accessible
          /\ results[k].error # NoneValue
          /\ results[k].content_hash = NoneValue

====
